---- MODULE Spec2Model ----
(***************************************************************************)
(* Real-estate rent calculator (src/calculator.js).                        *)
(*                                                                         *)
(* The core is two functions: calculateNPV, the year-by-year cash-flow     *)
(* projection, and findOptimalRent, the bisection that uses it as its      *)
(* oracle.  calculateOptimalRent is the form handler that reads the        *)
(* fields, validates two of them, runs the core and shows the results.     *)
(*                                                                         *)
(* Number representation.  The program computes in IEEE doubles.  Here an  *)
(* amount of money is a whole number of currency units and a rate a whole  *)
(* number of percent; a multiplication or division by a rate factor        *)
(* rounds down to the unit (MulDiv).  Each rounding loses less than one    *)
(* unit and year y is rounded at most y + (escalations so far) times, so   *)
(* an npv over n years differs from the program's by less than n * (n + 1) *)
(* units (64 units on the page's defaults, of 391 million).  No property   *)
(* below turns on a margin that small.  All values stay below 2^31.        *)
(***************************************************************************)
EXTENDS Integers, Sequences, FiniteSets

VARIABLES
    form,         \* the nine number fields of the page, as entered
    edits,        \* how many 'input' edits were made to the form (bounded)
    inputs,       \* the parameter record the core is running on
    pc,           \* "idle" | "projected" | "search" | "returned" | "done"
    low,          \* findOptimalRent: low
    high,         \* findOptimalRent: high
    optimalRent,  \* findOptimalRent: optimalRent
    iterations,   \* findOptimalRent: iterations
    rent,         \* annualRent argument of the last calculateNPV whose result is kept
    proj,         \* that result: [npv, cashFlowData]
    payback,      \* calculatePaybackPeriod of proj.cashFlowData
    prev,         \* <<>> or <<[rent, npv]>>: the projection made before the last one
    display,      \* what updateResults last wrote to the page
    alert,        \* the last alert raised by calculateOptimalRent, "none" if none
    timeout,      \* per field: ms until its pending setTimeout fires, NoTimer if none
    sinceEdit     \* ms since the last 'input' event on any field, capped at DEBOUNCE_MS

vars == <<form, edits, inputs, pc, low, high, optimalRent, iterations,
          rent, proj, payback, prev, display, alert, timeout, sinceEdit>>

searchVars == <<low, high, optimalRent, iterations>>

timerVars == <<timeout, sinceEdit>>

-----------------------------------------------------------------------------
(* Program constants *)

UPPER_BOUND == 50000000
TOLERANCE == 1000
maxIterations == 50
DEBOUNCE_MS == 500
NoTimer == -1

DefaultContractDuration == 20
DefaultGracePeriod == 2
DefaultRentIncreaseInterval == 5
DefaultRentIncreaseRate == 10
DefaultCapitalizationRate == 7
DefaultLandArea == 10000
DefaultBuildingFactorTenths == 25
DefaultConstructionCost == 2000
DefaultTotalDevelopmentCost == 93480000

(* Bounds of the model *)

MaxDuration == 4
MaxGrace == 4
MaxInterval == 2
MaxEdits == 2

-----------------------------------------------------------------------------
(* Arithmetic *)

\* floor(a * b / c) for c > 0, without forming a * b.
MulDiv(a, b, c) == (a \div c) * b + ((a % c) * b) \div c

\* currentRent *= (1 + rentIncreaseRate / 100)
Escalate(currentRent, rate) == MulDiv(currentRent, 100 + rate, 100)

\* yearlyRent / Math.pow(1 + capitalizationRate / 100, year)
RECURSIVE Discount(_, _, _)
Discount(yearlyRent, cap, year) ==
    IF year <= 0 THEN yearlyRent
    ELSE MulDiv(Discount(yearlyRent, cap, year - 1), 100, 100 + cap)

-----------------------------------------------------------------------------
(* calculateNPV *)

\* RentActive with >= written for >
RentActiveOffByOne(year, in) == year >= in.gracePeriod

\* if (year > inputs.gracePeriod)
RentActive(year, in) == year > in.gracePeriod

\* EscalationDue without its last conjunct: the first post-grace year escalates too
EscalationDueEveryInterval(year, in) ==
    /\ year > in.gracePeriod
    /\ (year - in.gracePeriod - 1) % in.rentIncreaseInterval = 0

\* the escalation condition of the inner if
EscalationDue(year, in) ==
    /\ year > in.gracePeriod
    /\ (year - in.gracePeriod - 1) % in.rentIncreaseInterval = 0
    /\ year > in.gracePeriod + 1

\* AccumulateNPV with -= written for +=
AccumulateNPVSubtract(npv, discountedCashFlow) == npv - discountedCashFlow

\* npv += discountedCashFlow
AccumulateNPV(npv, discountedCashFlow) == npv + discountedCashFlow

\* CumulativeSeed forgetting the development cost
CumulativeSeedZero(in) == 0

\* let cumulativeCashFlow = -inputs.totalDevelopmentCost
CumulativeSeed(in) == -in.totalDevelopmentCost

\* the body of the for loop, from year to inputs.contractDuration
RECURSIVE NPVLoop(_, _, _, _, _, _)
NPVLoop(year, currentRent, npv, cumulativeCashFlow, cashFlowData, in) ==
    IF year > in.contractDuration
    THEN [npv |-> npv, cashFlowData |-> cashFlowData]
    ELSE LET active == RentActive(year, in)
             escalate == active /\ EscalationDue(year, in)
             newRent == IF escalate
                        THEN Escalate(currentRent, in.rentIncreaseRate)
                        ELSE currentRent
             yearlyRent == IF active THEN newRent ELSE 0
             discountedCashFlow ==
                 Discount(yearlyRent, in.capitalizationRate, year)
             newCumulative == cumulativeCashFlow + discountedCashFlow
         IN NPVLoop(year + 1, newRent,
                    AccumulateNPV(npv, discountedCashFlow),
                    newCumulative,
                    Append(cashFlowData,
                           [year |-> year,
                            rent |-> yearlyRent,
                            discountedCashFlow |-> discountedCashFlow,
                            cumulativeCashFlow |-> newCumulative]),
                    in)

calculateNPV(annualRent, in) ==
    NPVLoop(1, annualRent, -in.totalDevelopmentCost, CumulativeSeed(in), <<>>, in)

-----------------------------------------------------------------------------
(* calculatePaybackPeriod, calculateAnnualReturn *)

\* calculatePaybackPeriod returning the index i in place of the year i + 1
RECURSIVE PaybackScanOffByOne(_, _)
PaybackScanOffByOne(i, cashFlowData) ==
    IF i > Len(cashFlowData) THEN Len(cashFlowData)
    ELSE IF cashFlowData[i].cumulativeCashFlow >= 0 THEN i - 1
    ELSE PaybackScanOffByOne(i + 1, cashFlowData)

calculatePaybackPeriodOffByOne(cashFlowData) == PaybackScanOffByOne(1, cashFlowData)

\* the for loop from index i (1-based here, so the JS "return i + 1" is i)
RECURSIVE PaybackScan(_, _)
PaybackScan(i, cashFlowData) ==
    IF i > Len(cashFlowData) THEN Len(cashFlowData)
    ELSE IF cashFlowData[i].cumulativeCashFlow >= 0 THEN i
    ELSE PaybackScan(i + 1, cashFlowData)

calculatePaybackPeriod(cashFlowData) == PaybackScan(1, cashFlowData)

\* (optimalRent / totalDevelopmentCost) * 100, in whole percent, by long division
calculateAnnualReturn(rentValue, totalDevelopmentCost) ==
    IF totalDevelopmentCost = 0 THEN 0
    ELSE LET c == totalDevelopmentCost
             q0 == rentValue \div c
             r0 == rentValue % c
             d1 == (r0 * 10) \div c
             r1 == (r0 * 10) % c
             d2 == (r1 * 10) \div c
         IN q0 * 100 + d1 * 10 + d2

-----------------------------------------------------------------------------
(* getInputValues *)

\* A number field as entered: empty / not a number, or a number.
Empty == [nan |-> TRUE, num |-> 0]
Num(n) == [nan |-> FALSE, num |-> n]

\* parseFloat(field.value) || default : NaN and 0 are both falsy
ParseOrDefault(field, default) ==
    IF field.nan \/ field.num = 0 THEN default ELSE field.num

getInputValues(f) ==
    [contractDuration     |-> ParseOrDefault(f.contractDuration, DefaultContractDuration),
     gracePeriod          |-> ParseOrDefault(f.gracePeriod, DefaultGracePeriod),
     rentIncreaseInterval |-> ParseOrDefault(f.rentIncreaseInterval, DefaultRentIncreaseInterval),
     rentIncreaseRate     |-> ParseOrDefault(f.rentIncreaseRate, DefaultRentIncreaseRate),
     capitalizationRate   |-> ParseOrDefault(f.capitalizationRate, DefaultCapitalizationRate),
     landArea             |-> ParseOrDefault(f.landArea, DefaultLandArea),
     buildingFactor       |-> ParseOrDefault(f.buildingFactor, DefaultBuildingFactorTenths),
     constructionCost     |-> ParseOrDefault(f.constructionCost, DefaultConstructionCost),
     totalDevelopmentCost |-> ParseOrDefault(f.totalDevelopmentCost, DefaultTotalDevelopmentCost)]

\* the value attributes of the fields in index.html
DefaultForm ==
    [contractDuration     |-> Num(DefaultContractDuration),
     gracePeriod          |-> Num(DefaultGracePeriod),
     rentIncreaseInterval |-> Num(DefaultRentIncreaseInterval),
     rentIncreaseRate     |-> Num(DefaultRentIncreaseRate),
     capitalizationRate   |-> Num(DefaultCapitalizationRate),
     landArea             |-> Num(DefaultLandArea),
     buildingFactor       |-> Num(DefaultBuildingFactorTenths),
     constructionCost     |-> Num(DefaultConstructionCost),
     totalDevelopmentCost |-> Num(DefaultTotalDevelopmentCost)]

\* Scenario A of the specification: the page's defaults
ScenarioA == getInputValues(DefaultForm)

-----------------------------------------------------------------------------
(* Input domains *)

FieldNames == DOMAIN DefaultForm

\* the min attributes of the fields in index.html (buildingFactor in tenths)
FieldMin ==
    [contractDuration     |-> 1,
     gracePeriod          |-> 0,
     rentIncreaseInterval |-> 1,
     rentIncreaseRate     |-> 0,
     capitalizationRate   |-> 1,
     landArea             |-> 100,
     buildingFactor       |-> 1,
     constructionCost     |-> 500,
     totalDevelopmentCost |-> 1000000]

\* what a user may type into each field
FieldValues ==
    [contractDuration     |-> {Empty, Num(0), Num(-1), Num(3)},
     gracePeriod          |-> {Empty, Num(0), Num(5)},
     rentIncreaseInterval |-> {Empty, Num(0), Num(2)},
     rentIncreaseRate     |-> {Empty, Num(0), Num(15)},
     capitalizationRate   |-> {Empty, Num(0), Num(10)},
     landArea             |-> {Empty},
     buildingFactor       |-> {Empty},
     constructionCost     |-> {Empty},
     totalDevelopmentCost |-> {Empty, Num(0), Num(-1), Num(1000000)}]

\* parameter records the core is called with directly
ParamSet ==
    { [ScenarioA EXCEPT !.contractDuration = d, !.gracePeriod = g,
                        !.rentIncreaseInterval = i, !.rentIncreaseRate = r,
                        !.capitalizationRate = c, !.totalDevelopmentCost = t] :
        d \in 0..MaxDuration, g \in 0..MaxGrace, i \in 1..MaxInterval,
        r \in {0, 10}, c \in {7, 20}, t \in {1000000, 93480000} }
    \cup {ScenarioA}

\* candidate rents the projector is called with directly
RentSet == {0, 400000, 1000000, 30000000}

\* the preconditions of section 3 of the specification
IsValid(in) ==
    /\ in.contractDuration >= 1
    /\ in.gracePeriod >= 0
    /\ in.rentIncreaseInterval >= 1
    /\ in.rentIncreaseRate >= 0
    /\ in.capitalizationRate > 0
    /\ in.totalDevelopmentCost > 0

-----------------------------------------------------------------------------
(* findOptimalRent *)

\* Mid with - written for +
MidSignSlip(lo, hi) == (lo - hi) \div 2

\* Mid without its parentheses: low + high / 2
MidPrecedenceSlip(lo, hi) == lo + hi \div 2

\* Math.floor((low + high) / 2)
Mid(lo, hi) == (lo + hi) \div 2

\* while (high - low > 1000 && iterations < maxIterations)
LoopGuard == high - low > TOLERANCE /\ iterations < maxIterations

\* let low = 0; let high = 50000000; let optimalRent = 0; let iterations = 0
EnterSearch ==
    /\ low' = 0
    /\ high' = UPPER_BOUND
    /\ optimalRent' = 0
    /\ iterations' = 0

\* one iteration of the loop body, given the sign test of the oracle at mid
Bisect(mid, feasible) ==
    /\ IF feasible
       THEN optimalRent' = mid /\ low' = mid /\ high' = high
       ELSE high' = mid /\ low' = low /\ optimalRent' = optimalRent
    /\ iterations' = iterations + 1

\* an iteration with calculateNPV as the oracle
SearchStep ==
    /\ pc = "search"
    /\ LoopGuard
    /\ LET mid == Mid(low, high)
       IN Bisect(mid, calculateNPV(mid, inputs).npv >= 0)
    /\ UNCHANGED <<form, edits, inputs, pc, rent, proj, payback, prev, display, alert, timerVars>>

\* an iteration with an arbitrary oracle
SearchStepAnyAnswer ==
    /\ pc = "search"
    /\ LoopGuard
    /\ \E feasible \in BOOLEAN : Bisect(Mid(low, high), feasible)
    /\ UNCHANGED <<form, edits, inputs, pc, rent, proj, payback, prev, display, alert, timerVars>>

\* the loop condition fails: return optimalRent
ExitLoop ==
    /\ pc = "search"
    /\ ~LoopGuard
    /\ pc' = "returned"
    /\ UNCHANGED <<form, edits, inputs, searchVars, rent, proj, payback, prev, display, alert, timerVars>>

-----------------------------------------------------------------------------
(* calculateOptimalRent *)

\* lines 185-199: read the form, validate, start the search
RunCalculateOptimalRent ==
    /\ pc \in {"idle", "done"}
    /\ LET in == getInputValues(form)
       IN IF in.totalDevelopmentCost <= 0
          THEN /\ alert' = "developmentCost"
               /\ UNCHANGED <<inputs, pc, searchVars>>
          ELSE IF in.contractDuration <= 0
          THEN /\ alert' = "contractDuration"
               /\ UNCHANGED <<inputs, pc, searchVars>>
          ELSE /\ alert' = "none"
               /\ inputs' = in
               /\ pc' = "search"
               /\ EnterSearch
    /\ UNCHANGED <<form, edits, rent, proj, payback, prev, display>>

\* calculateOptimalRent called outright: the button's onclick, the call at page load
CalculateOptimalRent ==
    /\ RunCalculateOptimalRent
    /\ UNCHANGED timerVars

\* lines 202-209: the final projection at the rent found, and the results shown
Finish ==
    /\ pc = "returned"
    /\ LET res == calculateNPV(optimalRent, inputs)
           pb == calculatePaybackPeriod(res.cashFlowData)
       IN /\ proj' = res
          /\ rent' = optimalRent
          /\ payback' = pb
          /\ display' = [optimalRent |-> optimalRent,
                         npv |-> res.npv,
                         paybackPeriod |-> pb,
                         annualReturn |->
                             calculateAnnualReturn(optimalRent, inputs.totalDevelopmentCost)]
    /\ prev' = <<>>
    /\ pc' = "done"
    /\ UNCHANGED <<form, edits, inputs, searchVars, alert, timerVars>>

\* clearTimeout(this.timeout); this.timeout = setTimeout(calculateOptimalRent, 500):
\* `this` is the input element, so each field has a timer handle of its own
RestartTimeout(name) == [timeout EXCEPT ![name] = DEBOUNCE_MS]

\* an 'input' event: the user changes one field, and the field's listener runs
EditField ==
    /\ pc \in {"idle", "done"}
    /\ edits < MaxEdits
    /\ \E name \in FieldNames : \E v \in FieldValues[name] :
          /\ v # form[name]
          /\ form' = [form EXCEPT ![name] = v]
          /\ timeout' = RestartTimeout(name)
    /\ sinceEdit' = 0
    /\ edits' = edits + 1
    /\ UNCHANGED <<inputs, pc, searchVars, rent, proj, payback, prev, display, alert>>

\* a pending timer of some field comes due: calculateOptimalRent runs
TimeoutFires ==
    /\ \E name \in FieldNames :
          /\ timeout[name] = 0
          /\ timeout' = [timeout EXCEPT ![name] = NoTimer]
    /\ RunCalculateOptimalRent
    /\ UNCHANGED sinceEdit

Min(a, b) == IF a <= b THEN a ELSE b

RECURSIVE MinOver(_, _)
MinOver(S, bound) ==
    IF S = {} THEN bound
    ELSE LET x == CHOOSE y \in S : TRUE IN MinOver(S \ {x}, Min(x, bound))

\* the time to the first pending timer, at most d
TimeToNext(d) == MinOver({timeout[n] : n \in {m \in FieldNames : timeout[m] # NoTimer}}, d)

\* time passes with no event, up to the moment the next timer is due; the
\* handlers themselves take no time, and a due timer runs before time moves on
Tick ==
    /\ pc \in {"idle", "done"}
    /\ \A n \in FieldNames : timeout[n] # 0
    /\ \E d \in {DEBOUNCE_MS \div 2, DEBOUNCE_MS} :
          LET dt == TimeToNext(d)
          IN /\ timeout' = [n \in FieldNames |->
                               IF timeout[n] = NoTimer THEN NoTimer ELSE timeout[n] - dt]
             /\ sinceEdit' = Min(sinceEdit + dt, DEBOUNCE_MS)
    /\ UNCHANGED <<form, edits, inputs, pc, searchVars, rent, proj, payback, prev,
                   display, alert>>

-----------------------------------------------------------------------------
(* Direct calls of the core *)

\* calculateNPV(r, inputs) and calculatePaybackPeriod of its schedule
Project ==
    /\ pc = "idle" \/ (pc = "projected" /\ prev = <<>>)
    /\ \E r \in RentSet :
          /\ rent' = r
          /\ proj' = calculateNPV(r, inputs)
          /\ payback' = calculatePaybackPeriod(calculateNPV(r, inputs).cashFlowData)
    /\ prev' = IF pc = "projected" THEN <<[rent |-> rent, npv |-> proj.npv]>> ELSE <<>>
    /\ pc' = "projected"
    /\ UNCHANGED <<form, edits, inputs, searchVars, display, alert, timerVars>>

\* findOptimalRent(inputs)
FindOptimalRent ==
    /\ pc = "idle"
    /\ pc' = "search"
    /\ EnterSearch
    /\ UNCHANGED <<form, edits, inputs, rent, proj, payback, prev, display, alert, timerVars>>

-----------------------------------------------------------------------------
(* Specifications *)

NoProjection == [npv |-> 0, cashFlowData |-> <<>>]
NoDisplay == [optimalRent |-> 0, npv |-> 0, paybackPeriod |-> 0, annualReturn |-> 0]

InitCommon ==
    /\ form = DefaultForm
    /\ edits = 0
    /\ pc = "idle"
    /\ low = 0
    /\ high = 0
    /\ optimalRent = 0
    /\ iterations = 0
    /\ rent = 0
    /\ proj = NoProjection
    /\ payback = 0
    /\ prev = <<>>
    /\ display = NoDisplay
    /\ alert = "none"
    /\ timeout = [n \in FieldNames |-> NoTimer]
    /\ sinceEdit = DEBOUNCE_MS

\* The core, called directly on each record of ParamSet.
Init == InitCommon /\ inputs \in ParamSet

Next == Project \/ FindOptimalRent \/ SearchStep \/ ExitLoop \/ Finish

Spec == Init /\ [][Next]_vars

\* The loop of findOptimalRent against an arbitrary oracle.
InitAnyAnswer == InitCommon /\ inputs = ScenarioA

NextAnyAnswer == FindOptimalRent \/ SearchStepAnyAnswer \/ ExitLoop

SpecAnyAnswer == InitAnyAnswer /\ [][NextAnyAnswer]_vars

\* The page: the form, and calculateOptimalRent run on it at any moment (time is
\* not followed: a timer that was set stays pending).
InitForm == InitCommon /\ inputs = ScenarioA

NextForm == EditField \/ CalculateOptimalRent \/ SearchStep \/ ExitLoop \/ Finish

SpecForm == InitForm /\ [][NextForm]_vars

\* The page in time: edits, the passing of time, and the debounced runs of
\* calculateOptimalRent that the timers start.
NextDebounce == EditField \/ Tick \/ TimeoutFires \/ SearchStep \/ ExitLoop \/ Finish

SpecDebounce == InitForm /\ [][NextDebounce]_vars

-----------------------------------------------------------------------------
(* Properties *)

Projected == pc \in {"projected", "done"}
Schedule == proj.cashFlowData

\* Some positive rent gives a non-negative NPV: the top of the search interval does.
FeasibleRentExists(in) == calculateNPV(UPPER_BOUND, in).npv >= 0

\* C1: for valid parameters with a feasible positive rent, the rent r returned by
\* findOptimalRent has NPV(r) >= 0 and NPV(r + 1000) < 0.
C1_SearchConvergence ==
    (pc = "returned" /\ IsValid(inputs) /\ FeasibleRentExists(inputs)) =>
        /\ calculateNPV(optimalRent, inputs).npv >= 0
        /\ calculateNPV(optimalRent + 1000, inputs).npv < 0

\* C2: low, high and optimalRent stay within 0 .. 50,000,000 in every state of the
\* search and at its return, whatever the parameters.
C2_RentWithinBounds ==
    /\ 0 <= low /\ low <= 50000000
    /\ 0 <= high /\ high <= 50000000
    /\ 0 <= optimalRent /\ optimalRent <= 50000000

\* the search has returned with every candidate feasible, on a small development cost
C2_Witness ==
    /\ pc = "returned"
    /\ inputs.totalDevelopmentCost = 1000000
    /\ high = UPPER_BOUND
    /\ optimalRent > 49000000

\* annualRent after k escalations, each applied as the loop applies it
RECURSIVE EscalateTimes(_, _, _)
EscalateTimes(annualRent, rate, k) ==
    IF k <= 0 THEN annualRent
    ELSE Escalate(EscalateTimes(annualRent, rate, k - 1), rate)

\* C3: the schedule has one entry per year of the contract; year y is charged 0 when
\* y <= gracePeriod and otherwise annualRent escalated floor((y - gracePeriod - 1) /
\* rentIncreaseInterval) times.
C3_RentSchedule ==
    Projected =>
        /\ Len(Schedule) = inputs.contractDuration
        /\ \A y \in 1..Len(Schedule) :
              Schedule[y].rent =
                  IF y <= inputs.gracePeriod THEN 0
                  ELSE EscalateTimes(rent, inputs.rentIncreaseRate,
                           (y - inputs.gracePeriod - 1) \div inputs.rentIncreaseInterval)

\* a projection of a positive rent whose schedule holds a twice-escalated year and,
\* the interval being longer than a year, years between escalations
C3_Witness ==
    /\ pc = "projected"
    /\ rent > 0
    /\ inputs.rentIncreaseRate > 0
    /\ inputs.rentIncreaseInterval > 1
    /\ inputs.gracePeriod > 0
    /\ \E y \in 1..Len(Schedule) :
          /\ (y - inputs.gracePeriod - 1) \div inputs.rentIncreaseInterval >= 1
          /\ Schedule[y].rent > rent

\* C4: when gracePeriod >= contractDuration every projection has npv =
\* -totalDevelopmentCost and an all-zero rent schedule, every candidate of the search
\* is infeasible, and the search returns 0 by its tolerance test.
C4_GraceCoversContract ==
    (inputs.gracePeriod >= inputs.contractDuration /\ inputs.totalDevelopmentCost > 0) =>
        /\ Projected =>
              /\ proj.npv = -inputs.totalDevelopmentCost
              /\ \A y \in 1..Len(Schedule) : Schedule[y].rent = 0
        /\ pc = "search" =>
              /\ low = 0 /\ optimalRent = 0
              /\ calculateNPV(Mid(low, high), inputs).npv = -inputs.totalDevelopmentCost
        /\ pc \in {"returned", "done"} =>
              /\ optimalRent = 0
              /\ high - low <= TOLERANCE
              /\ iterations < maxIterations

\* a positive rent projected over a contract that the grace period covers entirely
C4_Witness ==
    /\ pc = "projected"
    /\ rent > 0
    /\ inputs.contractDuration >= 2
    /\ inputs.gracePeriod = inputs.contractDuration

\* C5: of two projections on the same parameters, the one of the lower rent has the
\* lower or equal npv.
C5_Monotonicity ==
    (pc = "projected" /\ prev # <<>>) =>
        /\ prev[1].rent <= rent => prev[1].npv <= proj.npv
        /\ rent <= prev[1].rent => proj.npv <= prev[1].npv

\* two projections, the second of a higher rent and with a strictly higher npv
C5_Witness ==
    /\ pc = "projected"
    /\ prev # <<>>
    /\ prev[1].rent < rent
    /\ prev[1].npv < proj.npv

\* C6: each entry's cumulativeCashFlow is its predecessor's plus its own
\* discountedCashFlow, starting from -totalDevelopmentCost, and npv is the last
\* entry's cumulativeCashFlow (-totalDevelopmentCost for an empty schedule).
C6_CumulativeConsistency ==
    Projected =>
        /\ \A i \in 1..Len(Schedule) :
              Schedule[i].cumulativeCashFlow =
                  (IF i = 1 THEN -inputs.totalDevelopmentCost
                   ELSE Schedule[i - 1].cumulativeCashFlow)
                  + Schedule[i].discountedCashFlow
        /\ proj.npv = IF Len(Schedule) = 0 THEN -inputs.totalDevelopmentCost
                      ELSE Schedule[Len(Schedule)].cumulativeCashFlow

\* a schedule of several years whose last year brings in a positive discounted flow
C6_Witness ==
    /\ pc = "projected"
    /\ Len(Schedule) >= 3
    /\ Schedule[Len(Schedule)].discountedCashFlow > 0
    /\ Schedule[1].discountedCashFlow > 0

PaidBackYears == {i \in 1..Len(Schedule) : Schedule[i].cumulativeCashFlow >= 0}

\* C7: calculatePaybackPeriod returns the first year whose cumulativeCashFlow is >= 0,
\* the schedule length when there is none, and for a non-empty schedule a value in
\* 1 .. contractDuration.
C7_PaybackPeriod ==
    Projected =>
        /\ PaidBackYears # {} =>
              /\ payback \in PaidBackYears
              /\ \A j \in PaidBackYears : payback <= j
        /\ PaidBackYears = {} => payback = Len(Schedule)
        /\ Len(Schedule) > 0 => (1 <= payback /\ payback <= inputs.contractDuration)

\* the investment is paid back in a year that is neither the first nor the last
C7_Witness ==
    /\ pc = "projected"
    /\ PaidBackYears # {}
    /\ 1 < payback
    /\ payback < Len(Schedule)

\* the form holds a number <= 0 as totalDevelopmentCost or as contractDuration
NonPositiveEntered(f) ==
    \/ ~f.totalDevelopmentCost.nan /\ f.totalDevelopmentCost.num <= 0
    \/ ~f.contractDuration.nan /\ f.contractDuration.num <= 0

\* C8: a run of calculateOptimalRent on a form holding a totalDevelopmentCost or a
\* contractDuration <= 0 (0 included) raises an alert and neither starts the search
\* nor changes the displayed results.
C8_RejectsNonPositive ==
    [][(pc \in {"idle", "done"} /\ form' = form /\ NonPositiveEntered(form)) =>
           (pc' = pc /\ display' = display /\ alert' # "none")]_vars

\* C9: on Scenario A the rent returned is positive and the npv of the final projection
\* lies within [-1000, 1000].
C9_ScenarioA ==
    (pc = "done" /\ inputs = ScenarioA) =>
        /\ optimalRent > 0
        /\ -1000 <= proj.npv /\ proj.npv <= 1000

RECURSIVE Pow2(_)
Pow2(n) == IF n <= 0 THEN 1 ELSE 2 * Pow2(n - 1)

\* C10: against any sequence of answers, after i iterations the interval is at most
\* ceil(50,000,000 / 2^i) wide, the loop never runs more than 16 iterations, and it is
\* left with high - low <= 1000 and the iteration cap not reached.
C10_LoopExitsByTolerance ==
    /\ iterations <= 16
    /\ pc \in {"search", "returned"} =>
          high - low <= (UPPER_BOUND + Pow2(iterations) - 1) \div Pow2(iterations)
    /\ pc = "search" => (LoopGuard \/ high - low <= TOLERANCE)
    /\ pc = "returned" => (high - low <= TOLERANCE /\ iterations < maxIterations)

\* the loop was left after answers of both kinds
C10_Witness ==
    /\ pc = "returned"
    /\ 0 < low
    /\ high < UPPER_BOUND
    /\ high - low <= TOLERANCE

\* a step in which a pending timer of some field fires
TimerFired ==
    /\ form' = form
    /\ \E n \in FieldNames : timeout[n] = 0 /\ timeout'[n] = NoTimer

\* C11: a debounced run of calculateOptimalRent starts only when no field was edited
\* in the last 500 ms, and it is the only one its burst of edits causes: no timer of
\* another field is left pending behind it.
C11_DebouncedRecompute ==
    [][TimerFired =>
          /\ sinceEdit >= DEBOUNCE_MS
          /\ \A m \in FieldNames : timeout'[m] = NoTimer]_vars

\* C12: the record the core runs on holds every valid number of the form unchanged
\* (a gracePeriod or rentIncreaseRate of 0 included), and a default only where the
\* field is empty.
C12_ValuesPassThrough ==
    pc \in {"search", "returned"} =>
        \A name \in FieldNames :
            IF form[name].nan
            THEN inputs[name] = ScenarioA[name]
            ELSE form[name].num >= FieldMin[name] => inputs[name] = form[name].num

====
